---------------------------- MODULE Spec2Model ----------------------------
(***************************************************************************)
(* A model of keywordmapper.py (SimpleKeywordMapper and main).             *)
(*                                                                         *)
(* Text is a sequence of one-character strings, so that normalisation,     *)
(* splitting and the substring test are computed character by character.   *)
(* A score is the exact rational num/den of the float the code computes    *)
(* (den is the number of words of the keyword); for keywords of 1, 2 or 4  *)
(* words, which the keyword pool of the pipeline uses, the float           *)
(* arithmetic of the code is exact and the two coincide.                   *)
(***************************************************************************)
EXTENDS Integers, Sequences, FiniteSets, TLC

VARIABLES
    pc,                 \* position of main() / find_best_matches
    keywords,           \* self.keywords
    urls_data,          \* self.urls_data
    final_mappings,     \* self.final_mappings (a dict: keyword -> match or None)
    ki,                 \* index of the keyword of the outer loop (line 179)
    ri,                 \* index of the next row of the inner loop (line 183)
    best_score,         \* local best_score of find_best_matches
    best_match,         \* local best_match of find_best_matches
    csv_rows,           \* data rows written by save_results
    url_keyword_count,  \* local aggregate of print_summary
    io_error,           \* an input or output file operation raised
    runs,               \* number of calls of find_best_matches so far
    prev_mappings,      \* final_mappings as the previous call left it
    n_pc, n_text, n_once, n_twice,      \* normalize_text applied once and twice
    s_pc, s_keyword, s_row, s_score     \* calculate_match_score applied once

vars == <<pc, keywords, urls_data, final_mappings, ki, ri, best_score,
          best_match, csv_rows, url_keyword_count, io_error, runs,
          prev_mappings, n_pc, n_text, n_once, n_twice,
          s_pc, s_keyword, s_row, s_score>>

mainVars == <<pc, keywords, urls_data, final_mappings, ki, ri, best_score,
              best_match, csv_rows, url_keyword_count, io_error, runs,
              prev_mappings>>

normVars == <<n_pc, n_text, n_once, n_twice>>

scoreVars == <<s_pc, s_keyword, s_row, s_score>>

-----------------------------------------------------------------------------
(* Characters and the classes the regular expressions of normalize_text use *)

UpperChars ==
    <<"A","B","C","D","E","F","G","H","I","J","K","L","M",
      "N","O","P","Q","R","S","T","U","V","W","X","Y","Z">>

LowerChars ==
    <<"a","b","c","d","e","f","g","h","i","j","k","l","m",
      "n","o","p","q","r","s","t","u","v","w","x","y","z">>

DigitChars == {"0","1","2","3","4","5","6","7","8","9"}

Range(f) == {f[i] : i \in DOMAIN f}

\* [/_\-\|&]
SeparatorChars == {"/", "_", "-", "|", "&"}

\* \w
WordChars == Range(UpperChars) \cup Range(LowerChars) \cup DigitChars \cup {"_"}

\* \s
SpaceChars == {" ", "\t", "\n", "\r"}

\* the empty str
EmptyStr == <<>>

\* str.lower(), one character
lower_char(c) ==
    IF c \in Range(UpperChars)
    THEN LowerChars[CHOOSE i \in DOMAIN UpperChars : UpperChars[i] = c]
    ELSE c

\* str.lower()
str_lower(s) == [i \in 1..Len(s) |-> lower_char(s[i])]

\* re.sub('[cls]+', ' ', s): every maximal run of characters of cls becomes one space
RECURSIVE sub_runs(_, _, _)
sub_runs(s, cls, i) ==
    IF i > Len(s) THEN <<>>
    ELSE IF s[i] \in cls
         THEN IF i > 1 /\ s[i-1] \in cls
              THEN sub_runs(s, cls, i + 1)
              ELSE <<" ">> \o sub_runs(s, cls, i + 1)
         ELSE <<s[i]>> \o sub_runs(s, cls, i + 1)

\* re.sub('[^\w\s]', ' ', s): every other character becomes a space
sub_nonword(s) ==
    [i \in 1..Len(s) |-> IF s[i] \in WordChars \cup SpaceChars THEN s[i] ELSE " "]

\* str.strip()
str_strip(s) ==
    LET keep == {i \in 1..Len(s) : s[i] \notin SpaceChars}
    IN  IF keep = {} THEN <<>>
        ELSE LET lo == CHOOSE i \in keep : \A j \in keep : i <= j
                 hi == CHOOSE i \in keep : \A j \in keep : j <= i
             IN  SubSeq(s, lo, hi)

\* str.replace(old, new) for a single character old
replace_char(s, old, new) ==
    [i \in 1..Len(s) |-> IF s[i] = old THEN new ELSE s[i]]

\* s[i:].startswith(t), i counted from 1
starts_at(s, t, i) ==
    /\ i + Len(t) - 1 <= Len(s)
    /\ SubSeq(s, i, i + Len(t) - 1) = t

\* str.replace(old, new): the non-overlapping occurrences, left to right
RECURSIVE str_replace(_, _, _, _)
str_replace(s, old, new, i) ==
    IF i > Len(s) THEN <<>>
    ELSE IF starts_at(s, old, i)
         THEN new \o str_replace(s, old, new, i + Len(old))
         ELSE <<s[i]>> \o str_replace(s, old, new, i + 1)

\* t in s, for str
str_contains(s, t) == \E i \in 1..(Len(s) - Len(t) + 1) : starts_at(s, t, i)

\* str.split(): the maximal runs of non-whitespace characters
RECURSIVE str_split(_, _, _)
str_split(s, i, word) ==
    IF i > Len(s)
    THEN IF word = <<>> THEN <<>> ELSE <<word>>
    ELSE IF s[i] \in SpaceChars
         THEN IF word = <<>>
              THEN str_split(s, i + 1, <<>>)
              ELSE <<word>> \o str_split(s, i + 1, <<>>)
         ELSE str_split(s, i + 1, Append(word, s[i]))

-----------------------------------------------------------------------------
(* normalize_text *)

\* a slip of normalize_text: the text is not stripped before the whitespace runs collapse
normalize_text_nostrip(text) ==
    IF text = EmptyStr THEN EmptyStr
    ELSE sub_runs(sub_nonword(sub_runs(str_lower(text), SeparatorChars, 1)),
                  SpaceChars, 1)

normalize_text(text) ==
    IF text = EmptyStr THEN EmptyStr
    ELSE sub_runs(str_strip(sub_nonword(sub_runs(str_lower(text), SeparatorChars, 1))),
                  SpaceChars, 1)

-----------------------------------------------------------------------------
(* extract_url_components; urlparse is the standard library's, modelled by  *)
(* what it does on a stripped URL: scheme, then //netloc, then the path up  *)
(* to the fragment, the query and the parameters of the last segment        *)

\* the characters of a URL scheme
SchemeChars ==
    Range(UpperChars) \cup Range(LowerChars) \cup DigitChars \cup {"+", "-", "."}

\* str.find(c, start), counted from 1; 0 when absent
find_char(s, cs, start) ==
    LET hits == {i \in start..Len(s) : s[i] \in cs}
    IN  IF hits = {} THEN 0 ELSE CHOOSE i \in hits : \A j \in hits : i <= j

\* str.rfind(c), counted from 1; 0 when absent
rfind_char(s, c) ==
    LET hits == {i \in 1..Len(s) : s[i] = c}
    IN  IF hits = {} THEN 0 ELSE CHOOSE i \in hits : \A j \in hits : j <= i

\* s[:i-1], the text before position i (all of s when i = 0)
before(s, i) == IF i = 0 THEN s ELSE SubSeq(s, 1, i - 1)

\* the URL after its scheme: the text after the first ':' when what precedes
\* it is a scheme (a letter, then scheme characters)
after_scheme(url, colon) ==
    IF /\ colon > 1
       /\ url[1] \in Range(UpperChars) \cup Range(LowerChars)
       /\ \A i \in 1..(colon - 1) : url[i] \in SchemeChars
    THEN SubSeq(url, colon + 1, Len(url))
    ELSE url

\* _splitnetloc: [netloc, tail], the netloc running from // to the next / ? or #
split_netloc(rest, delim) ==
    IF starts_at(rest, <<"/", "/">>, 1)
    THEN IF delim = 0
         THEN [netloc |-> SubSeq(rest, 3, Len(rest)), tail |-> <<>>]
         ELSE [netloc |-> SubSeq(rest, 3, delim - 1),
               tail   |-> SubSeq(rest, delim, Len(rest))]
    ELSE [netloc |-> <<>>, tail |-> rest]

\* _splitparams: the path without the parameters of its last segment
strip_params(path) == before(path, find_char(path, {";"}, rfind_char(path, "/") + 1))

\* the path: the tail without its fragment, query and parameters
strip_query(noFrag) == strip_params(before(noFrag, find_char(noFrag, {"?"}, 1)))
url_path(tail) == strip_query(before(tail, find_char(tail, {"#"}, 1)))

\* [ok, netloc, path]; ok is FALSE when the netloc has one bracket without the
\* other, where urlparse raises ValueError
parse_result(parts) ==
    [ok     |-> (\E i \in 1..Len(parts.netloc) : parts.netloc[i] = "[")
                  <=> (\E i \in 1..Len(parts.netloc) : parts.netloc[i] = "]"),
     netloc |-> parts.netloc,
     path   |-> url_path(parts.tail)]

parse_rest(rest) == parse_result(split_netloc(rest, find_char(rest, {"/", "?", "#"}, 3)))

\* urllib.parse.urlparse
urlparse(url) == parse_rest(after_scheme(url, find_char(url, {":"}, 1)))

\* line 107
domain_parts(netloc) ==
    replace_char(
        str_replace(str_replace(netloc, <<"w","w","w",".">>, <<>>, 1),
                    <<".","c","o","m">>, <<>>, 1),
        ".", " ")

\* line 108
path_parts(path) ==
    replace_char(replace_char(replace_char(path, "/", " "), "-", " "), "_", " ")

\* lines 107-112, given what urlparse returned
url_components_of(parsed) ==
    IF parsed.ok
    THEN normalize_text(domain_parts(parsed.netloc) \o <<" ">> \o path_parts(parsed.path))
    ELSE EmptyStr

extract_url_components(url) ==
    IF url = EmptyStr THEN EmptyStr ELSE url_components_of(urlparse(url))

-----------------------------------------------------------------------------
(* Rows of the site export: functions from column names to text. A column  *)
(* DictReader leaves at None behaves as the empty text everywhere it is    *)
(* read, and is modelled as the empty text.                                *)

ColTitle    == "Title 1"
ColH1       == "H1-1"
ColH2       == "H2-1"
ColMetaDesc == "Meta Description 1"
ColMetaKw   == "Meta Keywords 1"

\* the URL column under its known names, in the order they are tried
AddrKeys == <<"Address", "<BOM>Address", "\"Address\"", "address", "URL">>

\* row.get(key, '')
row_get(row, key) == IF key \in DOMAIN row THEN row[key] ELSE EmptyStr

\* the loop over addr_key: the first alias present and non-empty, stripped
resolve_url(row) ==
    LET hits == {i \in DOMAIN AddrKeys :
                    AddrKeys[i] \in DOMAIN row /\ row[AddrKeys[i]] # EmptyStr}
    IN  IF hits = {} THEN EmptyStr
        ELSE str_strip(row[AddrKeys[CHOOSE i \in hits : \A j \in hits : i <= j]])

-----------------------------------------------------------------------------
(* calculate_match_score *)

\* the weights of content_fields, times 10 (field_score is a share times 10.0)
TitleWeight    == 50
H1Weight       == 40
UrlWeight      == 30
MetaDescWeight == 20
H2Weight       == 15
MetaKwWeight   == 25

\* the score 0.0
ZeroScore == [num |-> 0, den |-> 1]

\* a > b, a >= b and a = b for scores
ScoreGT(a, b) == a.num * b.den > b.num * a.den
ScoreGE(a, b) == a.num * b.den >= b.num * a.den
ScoreEQ(a, b) == a.num * b.den = b.num * a.den

\* a slip of word_matches: every distinct keyword word counts once
word_matches_distinct(keyword_words, content) ==
    Cardinality({w \in Range(keyword_words) : str_contains(content, w)})

\* sum(1 for word in keyword_words if word in content)
RECURSIVE word_matches(_, _)
word_matches(keyword_words, content) ==
    IF keyword_words = <<>> THEN 0
    ELSE (IF str_contains(content, Head(keyword_words)) THEN 1 ELSE 0)
         + word_matches(Tail(keyword_words), content)

\* content_fields: (content, weight) in the order the code lists them
content_fields(row) ==
    << <<normalize_text(row_get(row, ColTitle)), TitleWeight>>,
       <<normalize_text(row_get(row, ColH1)), H1Weight>>,
       <<extract_url_components(resolve_url(row)), UrlWeight>>,
       <<normalize_text(row_get(row, ColMetaDesc)), MetaDescWeight>>,
       <<normalize_text(row_get(row, ColH2)), H2Weight>>,
       <<normalize_text(row_get(row, ColMetaKw)), MetaKwWeight>> >>

\* the loop over content_fields: total_score times len(keyword_words)
RECURSIVE total_score(_, _)
total_score(keyword_words, fields) ==
    IF fields = <<>> THEN 0
    ELSE (IF Head(fields)[1] = EmptyStr THEN 0
          ELSE word_matches(keyword_words, Head(fields)[1]) * Head(fields)[2])
         + total_score(keyword_words, Tail(fields))

\* lines 119-171, given keyword_words
score_of_words(keyword_words, row) ==
    IF keyword_words = <<>> THEN ZeroScore
    ELSE [num |-> total_score(keyword_words, content_fields(row)),
          den |-> Len(keyword_words)]

calculate_match_score(keyword, row) ==
    score_of_words(str_split(normalize_text(keyword), 1, <<>>), row)

-----------------------------------------------------------------------------
(* Bounded inputs *)

\* all texts of at most n characters of the alphabet
TextsUpTo(alphabet, n) == UNION {[1..k -> alphabet] : k \in 0..n}

\* longest text given to normalize_text
MaxTextLen == 4

\* longest keyword given to calculate_match_score
MaxKeywordLen == 3

NormAlphabet == {"a", "B", " ", "\t", "-", "_", "."}

KeywordAlphabet == {"a", "B", " "}

\* the texts a content column of a scored row is drawn from
FieldPool == {<<>>, <<"a">>, <<"A", "-", "b", "!">>}

\* the URL columns a scored row is drawn from
UrlColumnsPool ==
    { <<>>,
      ("Address" :> <<"h","t","t","p",":","/","/","w","w","w",".","a",".","c","o","m","/","b","_","a">>),
      ("Address" :> <<>>) @@ ("URL" :> <<" ","/","/","b",".","o","r","g","/","x","?","a"," ">>) }

\* the worked example: "red shoes" against the page "Red Shoes Sale"
ExampleKeyword == <<"r","e","d"," ","s","h","o","e","s">>

ExampleRow ==
    ("Address" :> <<"h","t","t","p","s",":","/","/","s","i","t","e",".","c","o","m","/","r","e","d","-","s","h","o","e","s">>)
    @@ (ColTitle :> <<"R","e","d"," ","S","h","o","e","s"," ","S","a","l","e">>)
    @@ (ColH1 :> <<"B","u","y"," ","R","e","d"," ","S","h","o","e","s">>)

-----------------------------------------------------------------------------
(* The states of the parts a specification leaves alone *)

\* Python's None
None == [none |-> TRUE]

\* the mapper after __init__, before main calls anything
InitMain ==
    /\ pc = "start"
    /\ keywords = <<>>
    /\ urls_data = <<>>
    /\ final_mappings = <<>>
    /\ ki = 0
    /\ ri = 0
    /\ best_score = ZeroScore
    /\ best_match = None
    /\ csv_rows = <<>>
    /\ url_keyword_count = <<>>
    /\ io_error = FALSE
    /\ runs = 0
    /\ prev_mappings = <<>>

IdleNorm ==
    /\ n_pc = "idle"
    /\ n_text = <<>>
    /\ n_once = <<>>
    /\ n_twice = <<>>

IdleScore ==
    /\ s_pc = "idle"
    /\ s_keyword = <<>>
    /\ s_row = <<>>
    /\ s_score = ZeroScore

-----------------------------------------------------------------------------
(* normalize_text applied to a text, and again to its own result *)

InitNorm ==
    /\ n_pc = "input"
    /\ n_text \in TextsUpTo(NormAlphabet, MaxTextLen)
    /\ n_once = <<>>
    /\ n_twice = <<>>
    /\ InitMain
    /\ IdleScore

NormalizeOnce ==
    /\ n_pc = "input"
    /\ n_once' = normalize_text(n_text)
    /\ n_pc' = "once"
    /\ UNCHANGED <<n_text, n_twice, mainVars, scoreVars>>

NormalizeTwice ==
    /\ n_pc = "once"
    /\ n_twice' = normalize_text(n_once)
    /\ n_pc' = "twice"
    /\ UNCHANGED <<n_text, n_once, mainVars, scoreVars>>

NextNorm == NormalizeOnce \/ NormalizeTwice

SpecNorm == InitNorm /\ [][NextNorm]_vars

-----------------------------------------------------------------------------
(* calculate_match_score applied to a keyword and a row *)

InitScore ==
    /\ s_pc = "input"
    /\ \/ /\ s_keyword \in TextsUpTo(KeywordAlphabet, MaxKeywordLen)
          /\ \E title \in FieldPool, h1 \in FieldPool, h2 \in FieldPool,
                desc \in FieldPool, kw \in FieldPool, addr \in UrlColumnsPool :
                s_row = (ColTitle :> title) @@ (ColH1 :> h1) @@ (ColH2 :> h2)
                        @@ (ColMetaDesc :> desc) @@ (ColMetaKw :> kw) @@ addr
       \/ /\ s_keyword = ExampleKeyword
          /\ s_row = ExampleRow
    /\ s_score = ZeroScore
    /\ InitMain
    /\ IdleNorm

Score ==
    /\ s_pc = "input"
    /\ s_score' = calculate_match_score(s_keyword, s_row)
    /\ s_pc' = "scored"
    /\ UNCHANGED <<s_keyword, s_row, mainVars, normVars>>

NextScore == Score

SpecScore == InitScore /\ [][NextScore]_vars

-----------------------------------------------------------------------------
(* Inputs of the pipeline: the lines of the keywords file and the rows of   *)
(* the site export                                                          *)

\* most lines of the keywords file
MaxKeywords == 2

\* most rows of the site export
MaxRows == 2

\* most calls of find_best_matches on one mapper
MaxRuns == 2

\* "red shoes"; " Q-w x z " (four words once normalised); a blank line
KeywordLinePool ==
    { <<"r","e","d"," ","s","h","o","e","s">>,
      <<" ","Q","-","w"," ","x"," ","z"," ">>,
      <<" "," ">> }

\* the example page
RowExample == ExampleRow

\* a page whose URL column is empty: 50 for "red shoes"
RowNoUrl ==
    ("Address" :> <<>>) @@ (ColTitle :> <<"R","e","d"," ","s","h","o","e","s">>)

\* a page under the alias URL: 50 for "red shoes" as well
RowAliasUrl ==
    ("URL" :> <<"h","t","t","p",":","/","/","b",".","o","r","g","/","x">>) @@ (ColTitle :> <<"r","e","d"," ","S","H","O","E","S","!">>)

\* exactly 5.0 for "q w x z" (one word of four in the meta description), 7.5 for "red shoes"
RowThreshold ==
    ("\"Address\"" :> <<"h","t","t","p",":","/","/","c",".","o","r","g","/","m">>) @@ (ColMetaDesc :> <<"Q",".">>) @@ (ColH2 :> <<"R","e","d">>)

\* 3.75 for "q w x z" (one word of four in the H2); Address is blank, URL is not
RowBelow ==
    ("Address" :> <<" "," ">>) @@ ("URL" :> <<"h","t","t","p",":","/","/","d",".","o","r","g">>) @@ (ColH2 :> <<"w">>)

RowPool == {RowExample, RowNoUrl, RowAliasUrl, RowThreshold, RowBelow}

SeqsUpTo(S, n) == UNION {[1..k -> S] : k \in 0..n}

-----------------------------------------------------------------------------
(* dict: an insertion-ordered sequence of [key, value] *)

dict_has(d, k) == \E i \in DOMAIN d : d[i].key = k

\* d.get(k): None when the key is absent
dict_get(d, k) ==
    IF dict_has(d, k) THEN d[CHOOSE i \in DOMAIN d : d[i].key = k].value ELSE None

\* d[k] = v: a present key keeps its place, a new key goes last
dict_set(d, k, v) ==
    IF dict_has(d, k)
    THEN [i \in DOMAIN d |-> IF d[i].key = k THEN [key |-> k, value |-> v] ELSE d[i]]
    ELSE Append(d, [key |-> k, value |-> v])

-----------------------------------------------------------------------------
(* load_keywords, load_screaming_frog_data *)

\* str.replace('\r', '')
remove_cr(s) == SelectSeq(s, LAMBDA c : c # "\r")

\* [line.strip().replace('\r', '') for line in f if line.strip()]
RECURSIVE clean_lines(_)
clean_lines(lines) ==
    IF lines = <<>> THEN <<>>
    ELSE IF str_strip(Head(lines)) = EmptyStr
         THEN clean_lines(Tail(lines))
         ELSE <<remove_cr(str_strip(Head(lines)))>> \o clean_lines(Tail(lines))

\* main, line 358: the keywords file is read, or open() raises and main exits
load_keywords ==
    /\ pc = "start"
    /\ \/ /\ \E lines \in SeqsUpTo(KeywordLinePool, MaxKeywords) :
                keywords' = clean_lines(lines)
          /\ pc' = "keywords_loaded"
          /\ UNCHANGED io_error
       \/ /\ io_error' = TRUE
          /\ pc' = "exit1"
          /\ UNCHANGED keywords
    /\ UNCHANGED <<urls_data, final_mappings, ki, ri, best_score, best_match,
                   csv_rows, url_keyword_count, runs, prev_mappings,
                   normVars, scoreVars>>

\* main, line 359: the rows of the export are read, or open() raises and main exits
load_screaming_frog_data ==
    /\ pc = "keywords_loaded"
    /\ \/ /\ urls_data' \in SeqsUpTo(RowPool, MaxRows)
          /\ pc' = "loaded"
          /\ UNCHANGED io_error
       \/ /\ io_error' = TRUE
          /\ pc' = "exit1"
          /\ UNCHANGED urls_data
    /\ UNCHANGED <<keywords, final_mappings, ki, ri, best_score, best_match,
                   csv_rows, url_keyword_count, runs, prev_mappings,
                   normVars, scoreVars>>

-----------------------------------------------------------------------------
(* find_best_matches, one step per pass of the inner loop *)

\* the minimum threshold of line 207
AcceptThreshold == 5

\* a slip of line 186: a later row of equal score replaces the leader
is_better_or_equal(score, best) == ScoreGE(score, best)

\* line 186: score > best_score
is_better(score, best) == ScoreGT(score, best)

\* a slip of line 207: a score of exactly the threshold is refused
is_accepted_strict(match, score) ==
    match # None /\ ScoreGT(score, [num |-> AcceptThreshold, den |-> 1])

\* line 207: best_match and best_score >= 5.0
is_accepted(match, score) ==
    match # None /\ ScoreGE(score, [num |-> AcceptThreshold, den |-> 1])

\* lines 196-203; row_data refers to the row object, here by its place in urls_data
make_match(row, score, index) ==
    [url              |-> resolve_url(row),
     score            |-> score,
     title            |-> row_get(row, ColTitle),
     h1               |-> row_get(row, ColH1),
     meta_description |-> row_get(row, ColMetaDesc),
     row_data         |-> index]

\* lines 177-181: the store is emptied and the first keyword's scan starts
find_best_matches_begin ==
    /\ pc = "loaded"
    /\ runs < MaxRuns
    /\ prev_mappings' = final_mappings
    /\ final_mappings' = <<>>
    /\ runs' = runs + 1
    /\ ki' = 1
    /\ ri' = 1
    /\ best_score' = ZeroScore
    /\ best_match' = None
    /\ pc' = "scan"
    /\ UNCHANGED <<keywords, urls_data, csv_rows, url_keyword_count, io_error,
                   normVars, scoreVars>>

\* lines 186-205: the leader after a row of the given score
update_best(score, row, index, bestScore, bestMatch) ==
    IF is_better(score, bestScore)
    THEN [best_score |-> score, best_match |-> make_match(row, score, index)]
    ELSE [best_score |-> bestScore, best_match |-> bestMatch]

\* lines 207-212: the store entry of the keyword, accepted leader or None
store_entry(mappings, keyword, best) ==
    dict_set(mappings, keyword,
             IF is_accepted(best.best_match, best.best_score)
             THEN best.best_match
             ELSE None)

\* lines 183-212: one row is scored, and the store is written in the same pass
find_best_matches_row ==
    /\ pc = "scan"
    /\ ki <= Len(keywords)
    /\ ri <= Len(urls_data)
    /\ \E best \in {update_best(calculate_match_score(keywords[ki], urls_data[ri]),
                                urls_data[ri], ri, best_score, best_match)} :
          /\ best_score' = best.best_score
          /\ best_match' = best.best_match
          /\ final_mappings' = store_entry(final_mappings, keywords[ki], best)
    /\ ri' = ri + 1
    /\ UNCHANGED <<pc, keywords, urls_data, ki, csv_rows, url_keyword_count,
                   io_error, runs, prev_mappings, normVars, scoreVars>>

\* lines 179-181: the rows are exhausted, the next keyword's scan starts
find_best_matches_next_keyword ==
    /\ pc = "scan"
    /\ ki <= Len(keywords)
    /\ ri > Len(urls_data)
    /\ ki' = ki + 1
    /\ ri' = 1
    /\ best_score' = ZeroScore
    /\ best_match' = None
    /\ UNCHANGED <<pc, keywords, urls_data, final_mappings, csv_rows,
                   url_keyword_count, io_error, runs, prev_mappings,
                   normVars, scoreVars>>

\* lines 214-215: the keywords are exhausted, find_best_matches returns
find_best_matches_end ==
    /\ pc = "scan"
    /\ ki > Len(keywords)
    /\ pc' = "matched"
    /\ UNCHANGED <<keywords, urls_data, final_mappings, ki, ri, best_score,
                   best_match, csv_rows, url_keyword_count, io_error, runs,
                   prev_mappings, normVars, scoreVars>>

-----------------------------------------------------------------------------
(* save_results *)

UrlError == <<"U","R","L","_","E","R","R","O","R">>
NoMatch  == <<"N","O","_","M","A","T","C","H">>

\* the score bands of match_quality
ExcellentScore == 40
GoodScore      == 25
FairScore      == 15

\* the lengths page_title, h1_heading and meta_description are cut to
TitleLimit    == 150
H1Limit       == 100
MetaDescLimit == 200

\* s[:n]
prefix(s, n) == SubSeq(s, 1, IF Len(s) < n THEN Len(s) ELSE n)

\* f"{score:.2f}", as the number of hundredths printed (round half to even)
format_score(score) ==
    LET q == (score.num * 100) \div score.den
        r == (score.num * 100) % score.den
    IN  IF 2 * r > score.den \/ (2 * r = score.den /\ q % 2 = 1) THEN q + 1 ELSE q

\* lines 240-247
match_quality(score) ==
    IF ScoreGE(score, [num |-> ExcellentScore, den |-> 1]) THEN "Excellent"
    ELSE IF ScoreGE(score, [num |-> GoodScore, den |-> 1]) THEN "Good"
    ELSE IF ScoreGE(score, [num |-> FairScore, den |-> 1]) THEN "Fair"
    ELSE "Weak"

\* a slip of lines 234-236: an empty URL is written as it is
result_row_no_placeholder(keyword, mapping) ==
    IF mapping # None
    THEN [keyword          |-> keyword,
          matched_url      |-> mapping.url,
          match_score      |-> format_score(mapping.score),
          page_title       |-> prefix(mapping.title, TitleLimit),
          h1_heading       |-> prefix(mapping.h1, H1Limit),
          meta_description |-> prefix(mapping.meta_description, MetaDescLimit),
          match_quality    |-> match_quality(mapping.score)]
    ELSE [keyword          |-> keyword,
          matched_url      |-> NoMatch,
          match_score      |-> 0,
          page_title       |-> EmptyStr,
          h1_heading       |-> EmptyStr,
          meta_description |-> EmptyStr,
          match_quality    |-> "None"]

\* lines 229-267: the row of one keyword
result_row(keyword, mapping) ==
    IF mapping # None
    THEN [keyword          |-> keyword,
          matched_url      |-> IF mapping.url = EmptyStr THEN UrlError ELSE mapping.url,
          match_score      |-> format_score(mapping.score),
          page_title       |-> prefix(mapping.title, TitleLimit),
          h1_heading       |-> prefix(mapping.h1, H1Limit),
          meta_description |-> prefix(mapping.meta_description, MetaDescLimit),
          match_quality    |-> match_quality(mapping.score)]
    ELSE [keyword          |-> keyword,
          matched_url      |-> NoMatch,
          match_score      |-> 0,
          page_title       |-> EmptyStr,
          h1_heading       |-> EmptyStr,
          meta_description |-> EmptyStr,
          match_quality    |-> "None"]

\* a slip of line 228: one row per entry of the store instead of per keyword
result_rows_per_entry(kws, mappings) ==
    [i \in DOMAIN mappings |-> result_row(mappings[i].key, mappings[i].value)]

\* lines 228-269: for keyword in self.keywords
result_rows(kws, mappings) ==
    [i \in DOMAIN kws |-> result_row(kws[i], dict_get(mappings, kws[i]))]

\* main, line 361: the rows are written, or the file operation raises and main exits
save_results ==
    /\ pc = "matched"
    /\ \/ /\ csv_rows' = result_rows(keywords, final_mappings)
          /\ pc' = "saved"
          /\ UNCHANGED io_error
       \/ /\ io_error' = TRUE
          /\ pc' = "exit1"
          /\ UNCHANGED csv_rows
    /\ UNCHANGED <<keywords, urls_data, final_mappings, ki, ri, best_score,
                   best_match, url_keyword_count, runs, prev_mappings,
                   normVars, scoreVars>>

-----------------------------------------------------------------------------
(* print_summary *)

\* a slip of line 286: the list of a URL is replaced instead of extended
add_keyword_overwrite(counts, url, keyword) == dict_set(counts, url, <<keyword>>)

\* line 286: url_keyword_count[url].append(keyword), on a defaultdict(list)
add_keyword(counts, url, keyword) ==
    dict_set(counts, url,
             Append(IF dict_has(counts, url) THEN dict_get(counts, url) ELSE <<>>,
                    keyword))

\* lines 283-286: for keyword, mapping in self.final_mappings.items()
RECURSIVE count_url_keywords(_, _)
count_url_keywords(items, counts) ==
    IF items = <<>> THEN counts
    ELSE count_url_keywords(
             Tail(items),
             IF Head(items).value # None
             THEN add_keyword(counts, Head(items).value.url, Head(items).key)
             ELSE counts)

\* main, line 362: the aggregate is built; line 298 divides by len(self.keywords),
\* and with no keyword raises ZeroDivisionError, which main turns into exit 1
print_summary ==
    /\ pc = "saved"
    /\ url_keyword_count' = count_url_keywords(final_mappings, <<>>)
    /\ \/ /\ Len(keywords) # 0
          /\ pc' = "done"
       \/ /\ Len(keywords) = 0
          /\ pc' = "exit1"
    /\ UNCHANGED <<keywords, urls_data, final_mappings, ki, ri, best_score,
                   best_match, csv_rows, io_error, runs, prev_mappings,
                   normVars, scoreVars>>

-----------------------------------------------------------------------------
(* main *)

Init == InitMain /\ IdleNorm /\ IdleScore

Next ==
    \/ load_keywords
    \/ load_screaming_frog_data
    \/ find_best_matches_begin
    \/ find_best_matches_row
    \/ find_best_matches_next_keyword
    \/ find_best_matches_end
    \/ save_results
    \/ print_summary

Spec == Init /\ [][Next]_vars

\* find_best_matches called again on the same mapper, keywords and rows
find_best_matches_again ==
    /\ pc = "matched"
    /\ runs < MaxRuns
    /\ pc' = "loaded"
    /\ UNCHANGED <<keywords, urls_data, final_mappings, ki, ri, best_score,
                   best_match, csv_rows, url_keyword_count, io_error, runs,
                   prev_mappings, normVars, scoreVars>>

NextRerun == Next \/ find_best_matches_again

SpecRerun == Init /\ [][NextRerun]_vars

-----------------------------------------------------------------------------
(* What the claims speak of, stated apart from the loops that compute it *)

\* find_best_matches has returned at least once and is not running
FindReturned == runs >= 1 /\ pc # "scan"

\* save_results has written its rows
ResultsSaved == pc \in {"saved", "done"}

\* the scores of a keyword against the rows, in row order
RECURSIVE ScoresFrom(_, _)
ScoresFrom(k, j) ==
    IF j > Len(urls_data) THEN <<>>
    ELSE <<calculate_match_score(k, urls_data[j])>> \o ScoresFrom(k, j + 1)

\* no score of the list is higher than the one at index j
IsMaxAt(scores, j) == \A j2 \in DOMAIN scores : ScoreGE(scores[j], scores[j2])

\* the maximum of a list of scores and the smallest index that reaches it;
\* 0.0 and no index when the list is empty
MaxOf(scores) ==
    IF scores = <<>> THEN [max |-> ZeroScore, first |-> 0]
    ELSE [max   |-> scores[CHOOSE j \in DOMAIN scores : IsMaxAt(scores, j)],
          first |-> CHOOSE j \in DOMAIN scores :
                        IsMaxAt(scores, j) /\ \A j2 \in 1..(j - 1) : ~IsMaxAt(scores, j2)]

\* the maximum score of k over all rows, with the first row that reaches it
Best(k) == MaxOf(ScoresFrom(k, 1))

\* a maximum of at least 5.0
ReachesThreshold(best) == best.max.num >= 5 * best.max.den

\* the store holds an accepted match for k
StoredAccepted(k) == dict_has(final_mappings, k) /\ dict_get(final_mappings, k) # None

\* the list print_summary built for a URL; empty when the URL has none
KeywordsOfUrl(u) ==
    IF dict_has(url_keyword_count, u) THEN dict_get(url_keyword_count, u) ELSE <<>>

\* every URL of a row or of the aggregate
AllUrls ==
    {resolve_url(urls_data[j]) : j \in DOMAIN urls_data}
        \cup {url_keyword_count[i].key : i \in DOMAIN url_keyword_count}

\* the keywords, out of a set, whose maximum reaches 5.0 at a first row of URL u
PointingTo(ks, u) ==
    {k \in ks : \E best \in {Best(k)} :
        ReachesThreshold(best) /\ resolve_url(urls_data[best.first]) = u}

-----------------------------------------------------------------------------
(* The claims *)

\* C1: after save_results there is one data row per entry of the keyword list,
\* in the input order: as many rows as keywords, and row i carries keyword i.
C1_OneRowPerKeywordInOrder ==
    ResultsSaved =>
        /\ Len(csv_rows) = Len(keywords)
        /\ \A i \in DOMAIN keywords : csv_rows[i].keyword = keywords[i]

\* C1 witness: rows were saved for a keyword list that repeats a keyword.
C1_Witness ==
    /\ ResultsSaved
    /\ Len(keywords) >= 2
    /\ keywords[1] = keywords[2]
    /\ Len(csv_rows) = Len(keywords)

\* C2: after find_best_matches returns, every keyword of the list has exactly
\* one entry in final_mappings, an accepted match or the unmatched marker.
C2_EveryKeywordHasOneEntry ==
    FindReturned =>
        \A i \in DOMAIN keywords :
            /\ Cardinality({j \in DOMAIN final_mappings :
                               final_mappings[j].key = keywords[i]}) = 1
            /\ \/ dict_get(final_mappings, keywords[i]) = None
               \/ dict_get(final_mappings, keywords[i]).score.num
                     >= 5 * dict_get(final_mappings, keywords[i]).score.den

\* C3: after find_best_matches, a keyword's entry is an accepted match exactly
\* when its maximum score over all rows is at least 5.0 (5.0 itself included),
\* and the score stored with an accepted entry is that maximum.
C3_AcceptedIffMaxReachesThreshold ==
    FindReturned =>
        \A i \in DOMAIN keywords : \A best \in {Best(keywords[i])} :
            /\ StoredAccepted(keywords[i]) <=> ReachesThreshold(best)
            /\ StoredAccepted(keywords[i]) =>
                  dict_get(final_mappings, keywords[i]).score = best.max

\* C3 witness: a keyword whose maximum is exactly 5.0 is stored as accepted.
C3_Witness ==
    /\ FindReturned
    /\ \E i \in DOMAIN keywords : \E best \in {Best(keywords[i])} :
          /\ best.first > 0
          /\ best.max.num = 5 * best.max.den
          /\ StoredAccepted(keywords[i])

\* C4: an accepted match is built from the first row, in row order, that
\* reaches the keyword's maximum score, and a second call of find_best_matches
\* on the same keywords and rows leaves the same store as the first.
C4_FirstOfTiesWinsAndRerunAgrees ==
    FindReturned =>
        /\ \A i \in DOMAIN keywords :
              StoredAccepted(keywords[i]) =>
                  dict_get(final_mappings, keywords[i]).row_data
                      = Best(keywords[i]).first
        /\ runs >= 2 => final_mappings = prev_mappings

\* C4 witness: after a second call, a keyword with two rows tied at its maximum
\* is accepted with the earlier one.
C4_Witness ==
    /\ FindReturned
    /\ runs >= 2
    /\ \E i \in DOMAIN keywords : \E scores \in {ScoresFrom(keywords[i], 1)} :
          \E j1, j2 \in DOMAIN scores :
              /\ j1 < j2
              /\ IsMaxAt(scores, j1)
              /\ IsMaxAt(scores, j2)
              /\ StoredAccepted(keywords[i])
              /\ dict_get(final_mappings, keywords[i]).row_data = j1

\* the words of a keyword's normalised form
KeywordWords(keyword) == str_split(normalize_text(keyword), 1, <<>>)

\* how many of the words, each occurrence counted, occur in the text
Occurring(words, text) ==
    Cardinality({i \in DOMAIN words : str_contains(text, words[i])})

\* C5: for a keyword of n >= 1 words the score is the sum over the six fields
\* of (m_f / n) * 10 * weight_f, with m_f the number of keyword words (with
\* multiplicity) found in the field's normalised text and the weights 5.0, 4.0,
\* 3.0, 2.0, 1.5, 2.5; empty fields add nothing, a keyword of no words scores
\* 0, the score lies between 0 and 180, and the worked example scores 120.
C5_ScoreIsWeightedWordShare ==
    s_pc = "scored" =>
        \A words \in {KeywordWords(s_keyword)} :
            /\ words = <<>> => s_score.num = 0
            /\ words # <<>> =>
                  /\ s_score.den = Len(words)
                  /\ s_score.num =
                        50 * Occurring(words, normalize_text(row_get(s_row, ColTitle)))
                      + 40 * Occurring(words, normalize_text(row_get(s_row, ColH1)))
                      + 30 * Occurring(words, extract_url_components(resolve_url(s_row)))
                      + 20 * Occurring(words, normalize_text(row_get(s_row, ColMetaDesc)))
                      + 15 * Occurring(words, normalize_text(row_get(s_row, ColH2)))
                      + 25 * Occurring(words, normalize_text(row_get(s_row, ColMetaKw)))
            /\ s_score.num >= 0
            /\ s_score.num <= 180 * s_score.den
            /\ (s_keyword = ExampleKeyword /\ s_row = ExampleRow) =>
                  s_score.num = 120 * s_score.den

\* C5 witness: the worked example has been scored, at 120.
C5_Witness ==
    /\ s_pc = "scored"
    /\ s_keyword = ExampleKeyword
    /\ s_row = ExampleRow
    /\ s_score.num = 120 * s_score.den

C7_AggregateCountsEveryListEntry ==
    pc = "done" =>
        \A u \in AllUrls :
            /\ Range(KeywordsOfUrl(u)) = PointingTo(Range(keywords), u)
            /\ Len(KeywordsOfUrl(u)) =
                  Cardinality({i \in DOMAIN keywords :
                                  PointingTo({keywords[i]}, u) # {}})

\* C7 amended: for every URL the aggregate lists exactly the distinct keywords
\* whose accepted match points to it, each once: a keyword repeated in the
\* input list appears once in the list of its URL.
C7_AggregateListsDistinctKeywords ==
    pc = "done" =>
        \A u \in AllUrls : \A pointing \in {PointingTo(Range(keywords), u)} :
            /\ Range(KeywordsOfUrl(u)) = pointing
            /\ Len(KeywordsOfUrl(u)) = Cardinality(pointing)

\* C7 witness: two different keywords were accepted with the same URL.
C7_Witness ==
    /\ pc = "done"
    /\ \E u \in AllUrls :
          /\ Len(KeywordsOfUrl(u)) >= 2
          /\ Cardinality(PointingTo(Range(keywords), u)) >= 2

\* "Foo-Bar_Baz" and "foo bar baz"
FooBarBazMixed == <<"F","o","o","-","B","a","r","_","B","a","z">>
FooBarBazPlain == <<"f","o","o"," ","b","a","r"," ","b","a","z">>

\* no uppercase letter, separator, punctuation or whitespace other than single
\* inner spaces
IsClean(s) ==
    /\ \A i \in DOMAIN s :
          /\ s[i] \notin Range(UpperChars)
          /\ s[i] \notin SeparatorChars
          /\ s[i] \in WordChars \cup {" "}
    /\ s # <<>> => s[1] # " " /\ s[Len(s)] # " "
    /\ \A i \in 1..(Len(s) - 1) : ~(s[i] = " " /\ s[i + 1] = " ")

\* the text with its letters lowered and its separators and punctuation blanked
Folded(s) ==
    [i \in DOMAIN s |->
        IF s[i] \in SeparatorChars \/ s[i] \notin WordChars \cup SpaceChars
        THEN " "
        ELSE lower_char(s[i])]

\* C8: normalize_text is idempotent; its output has no uppercase letter,
\* separator, punctuation, leading or trailing space or double space; texts
\* that differ only in case, separators and punctuation normalise alike, as
\* "Foo-Bar_Baz" and "foo bar baz" do.
C8_NormalizeIdempotentAndClean ==
    /\ n_pc \in {"once", "twice"} =>
          /\ IsClean(n_once)
          /\ n_once = normalize_text(Folded(n_text))
    /\ n_pc = "twice" => n_twice = n_once
    /\ normalize_text(FooBarBazMixed) = normalize_text(FooBarBazPlain)

\* C8 witness: a text with an uppercase letter and a separator was normalised
\* twice, and normalising changed it.
C8_Witness ==
    /\ n_pc = "twice"
    /\ \E i \in DOMAIN n_text : n_text[i] \in Range(UpperChars)
    /\ \E i \in DOMAIN n_text : n_text[i] \in SeparatorChars
    /\ n_once # <<>>
    /\ n_once # n_text

\* C9: while rows of a keyword's scan remain unscored, the store holds no entry
\* written for that keyword by this scan (an entry of the same key can only
\* come from an earlier occurrence of the keyword in the list).
C9_StoreWrittenOnlyAfterScan ==
    ( /\ pc = "scan"
      /\ ki <= Len(keywords)
      /\ ri <= Len(urls_data)
      /\ \A i \in 1..(ki - 1) : keywords[i] # keywords[ki] )
    => ~dict_has(final_mappings, keywords[ki])

\* C10: main reaches the exit(1) branch only after an input or output file
\* operation failed, whatever the lengths of the keyword list and the row set.
C10_ExitOnlyOnIoError == pc = "exit1" => io_error

=============================================================================
